---- MODULE Spec2Model ----
(***************************************************************************)
(* Model of code/data_downloaders/ffiec_nic_downloader.py: the command     *)
(* line program (main), the FFIECDownloader class and the filesystem it    *)
(* writes.  The HTTP servers and the contents of the archives they serve   *)
(* are the environment: every session.get draws one outcome.  The program  *)
(* may be invoked several times on the same output directory.              *)
(***************************************************************************)
EXTENDS Integers, Sequences, FiniteSets, TLC

\* ------------------------------------------------------------------ bounds
\* number of invocations of the program on the same output directory
MaxRuns == 2
\* number of HTTP calls, over all invocations, that do not get the regular
\* answer (status 200, well-formed headers, the expected complete body)
MaxFaults == 1
\* number of chunks iter_content delivers for a non-empty body
BodyChunks == 2
\* number of entries of a served archive
EntryCount == 2

\* ------------------------------------------------------- the source catalog
FdicKeys == <<"fdic_failed_banks", "fdic_failed_banks_legacy">>

AllKeys ==
  <<"fdic_failed_banks", "fdic_failed_banks_legacy", "nic_data_dictionary",
    "nic_attributes_csv", "nic_attributes_closed_csv",
    "nic_attributes_branches_csv", "nic_relationships_csv",
    "nic_transformations_csv">>

\* DATA_SOURCES: format, target filename, Path(filename).stem, subdirectory
DATA_SOURCES ==
  [k \in {AllKeys[i] : i \in 1..Len(AllKeys)} |->
    CASE k = "fdic_failed_banks" ->
           [format |-> "csv", filename |-> "fdic_failed_banks.csv", stem |-> "fdic_failed_banks"]
      [] k = "fdic_failed_banks_legacy" ->
           [format |-> "csv", filename |-> "fdic_failed_banks_legacy.csv", stem |-> "fdic_failed_banks_legacy"]
      [] k = "nic_data_dictionary" ->
           [format |-> "pdf", filename |-> "NPW_Data_Dictionary.pdf", stem |-> "NPW_Data_Dictionary"]
      [] k = "nic_attributes_csv" ->
           [format |-> "zip", filename |-> "NIC_Attributes_Active.zip", stem |-> "NIC_Attributes_Active"]
      [] k = "nic_attributes_closed_csv" ->
           [format |-> "zip", filename |-> "NIC_Attributes_Closed.zip", stem |-> "NIC_Attributes_Closed"]
      [] k = "nic_attributes_branches_csv" ->
           [format |-> "zip", filename |-> "NIC_Attributes_Branches.zip", stem |-> "NIC_Attributes_Branches"]
      [] k = "nic_relationships_csv" ->
           [format |-> "zip", filename |-> "NIC_Relationships.zip", stem |-> "NIC_Relationships"]
      [] k = "nic_transformations_csv" ->
           [format |-> "zip", filename |-> "NIC_Transformations.zip", stem |-> "NIC_Transformations"]]

\* k.startswith("nic_")
StartsWithNic(k) ==
  k \in {"nic_data_dictionary", "nic_attributes_csv", "nic_attributes_closed_csv",
         "nic_attributes_branches_csv", "nic_relationships_csv",
         "nic_transformations_csv"}

\* nic_sources = [k for k in DATA_SOURCES if k.startswith("nic_")]
nic_sources == SelectSeq(AllKeys, StartsWithNic)

SeqRange(s) == {s[i] : i \in 1..Len(s)}

SourceKeys == SeqRange(AllKeys)
ZipKeys == {k \in SourceKeys : DATA_SOURCES[k].format = "zip"}

\* the step a source is downloaded in
StepOf(k) == IF k \in SeqRange(FdicKeys) THEN "fdic_failed_banks" ELSE "nic_data"

\* ------------------------------------------------------------ filesystem
\* A file is absent, or holds the first n chunks of a body.
Absent == [body |-> "absent", n |-> 0]
EmptyFile == [body |-> "", n |-> 0]

BodyLen(b) == IF b \in {"", "absent"} THEN 0 ELSE BodyChunks

\* the file after the first n chunks of body b were written to it
Written(b, n) == IF n = 0 THEN EmptyFile ELSE [body |-> b, n |-> n]
Full(b) == Written(b, BodyLen(b))

Exists(c) == c # Absent
\* the file holds a whole, non-empty body
Complete(c) == Exists(c) /\ c.n > 0 /\ c.n = BodyLen(c.body)
\* the file holds nothing, or a proper prefix of a body
EmptyOrTruncated(c) == Exists(c) /\ (c.n = 0 \/ c.n < BodyLen(c.body))

\* output_dir / "fdic" | "nic" / source["filename"]
OutputPath(k) ==
  (IF StepOf(k) = "fdic_failed_banks" THEN "fdic/" ELSE "nic/") \o DATA_SOURCES[k].filename

ApiJsonPath == "fdic/fdic_failures_api.json"
ApiCsvPath == "fdic/fdic_failures_api.csv"
ChicagoPath == "chicago_fed/DOWNLOAD_INSTRUCTIONS.md"
CdrPath == "metadata/FFIEC_CDR_INSTRUCTIONS.md"

FilePaths ==
  {OutputPath(k) : k \in SourceKeys} \cup {ApiJsonPath, ApiCsvPath, ChicagoPath, CdrPath}

\* output_dir / "nic" / Path(source["filename"]).stem
ExtractDir(k) == "nic/" \o DATA_SOURCES[k].stem

\* the directories __init__ creates
BaseDirs == {".", "fdic", "nic", "chicago_fed", "metadata"}

Entries == 1..EntryCount
NoEntries == [e \in Entries |-> "absent"]

\* ------------------------------------------------------------ environment
\* What one session.get and the streaming of its body can do.
\*   kind    ConnectionError / Timeout raised by session.get, or a response
\*   status  the response's status code
\*   header  the Content-Length header: well-formed or not an integer
\*   body    the body the server sends
\*   got     the chunks that arrive before the connection breaks
\*           (got = BodyLen(body): the whole body arrives); a body that is
\*           cut short is a prefix of the expected payload
Bodies(format) ==
  IF format = "zip"
  THEN {"", "payload", "not_zip", "zip_bad_member", "zip_bad_stream"}
  ELSE {"", "payload"}

Outcomes(format) ==
  {[kind |-> k, status |-> 0, header |-> "ok", body |-> "", got |-> 0] :
      k \in {"ConnectionError", "Timeout"}}
  \cup {[kind |-> "response", status |-> s, header |-> "ok", body |-> "", got |-> 0] :
      s \in {304, 404, 500}}
  \cup {[kind |-> "response", status |-> 200, header |-> h, body |-> b,
         got |-> BodyLen(b)] : h \in {"ok", "malformed"}, b \in Bodies(format)}
  \cup {[kind |-> "response", status |-> 200, header |-> "ok", body |-> "payload",
         got |-> g] : g \in 0..(BodyChunks - 1)}

Regular == [kind |-> "response", status |-> 200, header |-> "ok",
            body |-> "payload", got |-> BodyChunks]

NoOutcome == [kind |-> "none", status |-> 0, header |-> "ok", body |-> "", got |-> 0]

\* --------------------------------------------------------- download_file
\* response.raise_for_status(): HTTPError for a 4xx or 5xx status only
RaisesForStatus(status) == 400 <= status /\ status < 600

\* download_file with open(output_path, 'wb') moved before session.get: a
\* failure before the stream leaves an empty file
download_file_OpenFirst(before, o) ==
  IF o.kind \in {"ConnectionError", "Timeout"} \/ RaisesForStatus(o.status)
  THEN [file |-> EmptyFile, ret |-> FALSE, exc |-> "none"]
  ELSE IF o.header = "malformed"
  THEN [file |-> EmptyFile, ret |-> FALSE, exc |-> "ValueError"]
  ELSE IF o.got < BodyLen(o.body)
  THEN [file |-> Written(o.body, o.got), ret |-> FALSE, exc |-> "none"]
  ELSE [file |-> Written(o.body, BodyLen(o.body)), ret |-> TRUE, exc |-> "none"]

\* download_file with the destination opened in append mode ('ab')
download_file_Append(before, o) ==
  IF o.kind \in {"ConnectionError", "Timeout"} \/ RaisesForStatus(o.status)
  THEN [file |-> before, ret |-> FALSE, exc |-> "none"]
  ELSE IF o.header = "malformed"
  THEN [file |-> before, ret |-> FALSE, exc |-> "ValueError"]
  ELSE IF before.n + o.got = 0
  THEN [file |-> EmptyFile, ret |-> o.got = BodyLen(o.body), exc |-> "none"]
  ELSE [file |-> [body |-> IF o.got > 0 THEN o.body ELSE before.body,
                  n |-> before.n + o.got],
        ret |-> o.got = BodyLen(o.body), exc |-> "none"]

\* download_file on the file `before` at the destination, under outcome o:
\*   file   the destination afterwards
\*   ret    the value returned (meaningful when exc = "none")
\*   exc    the exception that leaves download_file, "none" when it returns
download_file(before, o) ==
  IF o.kind \in {"ConnectionError", "Timeout"}
  THEN \* session.get raises a RequestException: caught
       [file |-> before, ret |-> FALSE, exc |-> "none"]
  ELSE IF RaisesForStatus(o.status)
  THEN \* HTTPError is a RequestException: caught
       [file |-> before, ret |-> FALSE, exc |-> "none"]
  ELSE IF o.header = "malformed"
  THEN \* int(response.headers.get('content-length', 0)): not a RequestException
       [file |-> before, ret |-> FALSE, exc |-> "ValueError"]
  ELSE IF o.got < BodyLen(o.body)
  THEN \* open(output_path, 'wb') truncated the file, o.got chunks were
       \* written, then iter_content raised a RequestException: caught
       [file |-> Written(o.body, o.got), ret |-> FALSE, exc |-> "none"]
  ELSE [file |-> Written(o.body, BodyLen(o.body)), ret |-> TRUE, exc |-> "none"]

\* ----------------------------------------------------------- extract_zip
\* extract_zip on the archive file `zip` into a directory holding `before`:
\*   dir       the entries of the directory afterwards
\*   returned  len(extracted), the length of the list returned
\*   exc       the exception that leaves extract_zip, "none" when it returns
extract_zip(zip, before) ==
  IF Complete(zip) /\ zip.body = "payload"
  THEN \* zf.extractall writes every entry, extracted = one path per name
       [dir |-> [e \in Entries |-> "full"], returned |-> EntryCount, exc |-> "none"]
  ELSE IF Complete(zip) /\ zip.body \in {"zip_bad_member", "zip_bad_stream"}
  THEN \* the central directory reads; extractall writes the entries before
       \* the damaged one and creates the damaged one's file, then raises:
       \* BadZipFile (bad CRC-32: caught) or zlib.error (bad deflate stream:
       \* not a BadZipFile)
       [dir |-> [e \in Entries |-> IF e < EntryCount THEN "full" ELSE "cut"],
        returned |-> 0,
        exc |-> IF zip.body = "zip_bad_stream" THEN "zlib.error" ELSE "none"]
  ELSE \* empty, truncated or not an archive: ZipFile() raises BadZipFile
       [dir |-> before, returned |-> 0, exc |-> "none"]

\* ------------------------------------------- download_fdic_failures_api
\* What the GET of /failures can do: a transport failure, or a 2xx/3xx
\* response whose body is
\*   not_json          not JSON at all (or empty)
\*   falsy             JSON that is falsy in Python: {}, [], null, 0, ""
\*   object_no_data    an object without a "data" member
\*   no_records        {"data": []}
\*   records           {"data": [...]} of objects with the same members
\*   ragged_records    {"data": [...]} where a later object has a member
\*                     the first one lacks
\*   records_no_object {"data": [...]} whose elements are no objects
\*   scalar            a non-zero number or true
ApiBodies ==
  {"not_json", "falsy", "object_no_data", "no_records", "records",
   "ragged_records", "records_no_object", "scalar"}

ApiOutcomes ==
  {[kind |-> k, status |-> 0, header |-> "ok", body |-> "", got |-> 0] :
      k \in {"ConnectionError", "Timeout"}}
  \cup {[kind |-> "response", status |-> s, header |-> "ok", body |-> "", got |-> 0] :
      s \in {404, 500}}
  \cup {[kind |-> "response", status |-> 200, header |-> "ok", body |-> b, got |-> BodyChunks] :
      b \in ApiBodies}

ApiRegular == [kind |-> "response", status |-> 200, header |-> "ok",
               body |-> "records", got |-> BodyChunks]

\* download_fdic_api_data: the parsed JSON, "None" on a caught exception
\* (response.json() raises requests' JSONDecodeError, a RequestException)
download_fdic_api_data(o) ==
  IF o.kind \in {"ConnectionError", "Timeout"} THEN "None"
  ELSE IF RaisesForStatus(o.status) THEN "None"
  ELSE IF o.body = "not_json" THEN "None"
  ELSE o.body

\* _json_to_csv(data["data"], path) on the csv file `before`
json_to_csv(data, before) ==
  CASE data = "no_records" ->
         \* if not records: return
         [file |-> before, exc |-> "none"]
    [] data = "records" ->
         [file |-> Full("records"), exc |-> "none"]
    [] data = "ragged_records" ->
         \* the header and the first rows are written, then DictWriter raises
         [file |-> Written("ragged_records", 1), exc |-> "ValueError"]
    [] OTHER ->
         \* records[0].keys() fails before the file is opened
         [file |-> before, exc |-> "AttributeError"]

\* download_fdic_failures_api on the json and csv files, under outcome o
download_fdic_failures_api(json, csv, o) ==
  LET data == download_fdic_api_data(o) IN
  IF data \in {"None", "falsy"}
  THEN \* if data: is false
       [json |-> json, csv |-> csv, ret |-> FALSE, exc |-> "none"]
  ELSE IF data = "scalar"
  THEN \* json.dump succeeds, then `"data" in data` raises
       [json |-> Full(data), csv |-> csv, ret |-> FALSE, exc |-> "TypeError"]
  ELSE IF data = "object_no_data"
  THEN [json |-> Full(data), csv |-> csv, ret |-> TRUE, exc |-> "none"]
  ELSE LET c == json_to_csv(data, csv) IN
       [json |-> Full(data), csv |-> c.file, ret |-> c.exc = "none", exc |-> c.exc]

\* ------------------------------------------------------------------ state
VARIABLES
  pc,         \* "shell" (no process), or the step the process is at
  idx,        \* position of the loop of the current step (1-based)
  phase,      \* within download_nic_data: "download" or "extract"
  success,    \* the local `success` of the current step's loop
  args,       \* the parsed command line of the current / last invocation
  results,    \* download_all's local `results`
  files,      \* the regular files under output_dir, by relative path
  dirs,       \* the directories that exist (relative to output_dir)
  extracted,  \* the entries in each archive's extraction directory
  manifest,   \* metadata/download_manifest.json
  last,       \* the most recent download_file / extract_zip / API call of
              \* the current invocation (for extract_zip, o is the outcome of
              \* the download before it; was is what the source owned on
              \* disk when its loop iteration began)
  trace,      \* the calls of the current invocation, in order
  status,     \* "running", or how the last invocation ended: "returned"
              \* (main returned) or "raised" (an exception left main)
  runs,       \* invocations started so far
  faults      \* HTTP calls so far that did not get the regular answer

vars == <<pc, idx, phase, success, args, results, files, dirs, extracted,
          manifest, last, trace, status, runs, faults>>

\* the flags main() reads (--output-dir is fixed, --quiet only silences log)
Args(flags) == [all |-> "all" \in flags, fdic |-> "fdic" \in flags,
                nic |-> "nic" \in flags, chicago_fed |-> "chicago_fed" \in flags,
                cdr |-> "cdr" \in flags, list |-> "list" \in flags]

\* the command lines tried
ArgSpace ==
  {Args(f) : f \in {{}, {"list"}, {"list", "all"}, {"all"}, {"fdic"},
                    {"nic", "chicago_fed"}, {"fdic", "nic", "chicago_fed", "cdr"}}}

NoResults == [k \in {} |-> FALSE]
\* results[k] = v
Put(m, k, v) == [x \in DOMAIN m \cup {k} |-> IF x = k THEN v ELSE m[x]]

NoCall == [call |-> "none", key |-> "", o |-> NoOutcome, ret |-> FALSE,
           exc |-> "none", pre |-> Absent, preDir |-> NoEntries, returned |-> 0,
           was |-> [file |-> Absent, dir |-> FALSE, entries |-> NoEntries]]

\* what a source owns on disk: its downloaded file, and for an archive
\* whether its extraction directory exists and the entries in it
SourceState(k) ==
  [file |-> files[OutputPath(k)],
   dir |-> ExtractDir(k) \in dirs,
   entries |-> IF k \in ZipKeys THEN extracted[k] ELSE NoEntries]

\* ------------------------------------------------------- the order of steps
\* download_all with the NIC step moved to the front
DownloadAllSteps_NicFirst ==
  <<"nic_data", "fdic_failed_banks", "fdic_api", "chicago_fed_info",
    "cdr_info", "save_manifest">>

\* download_all: the five steps in the order of its statements, then
\* _save_manifest
DownloadAllSteps ==
  <<"fdic_failed_banks", "fdic_api", "nic_data", "chicago_fed_info",
    "cdr_info", "save_manifest">>

\* main() without --list and --all: the calls its `if args.x` blocks make
IndividualSteps(a) ==
  (IF a.fdic THEN <<"fdic_failed_banks", "fdic_api">> ELSE <<>>)
  \o (IF a.nic THEN <<"nic_data">> ELSE <<>>)
  \o (IF a.chicago_fed THEN <<"chicago_fed_info">> ELSE <<>>)
  \o (IF a.cdr THEN <<"cdr_info">> ELSE <<>>)

\* the steps main() takes after constructing the downloader
Plan(a) ==
  IF a.list THEN <<"list_sources">>
  ELSE IF a.all THEN DownloadAllSteps
  ELSE IF ~(a.fdic \/ a.nic \/ a.chicago_fed \/ a.cdr) THEN <<"print_help">>
  ELSE IndividualSteps(a)

\* the step after step s, "shell" when main returns after it
After(a, s) ==
  LET p == Plan(a)
      i == CHOOSE j \in 1..Len(p) : p[j] = s
  IN IF i < Len(p) THEN p[i + 1] ELSE "shell"

\* the process is inside download_all
InDownloadAll == pc # "shell" /\ args.all /\ ~args.list

Init ==
  /\ pc = "shell"
  /\ idx = 1
  /\ phase = "download"
  /\ success = TRUE
  /\ args = Args({})
  /\ results = NoResults
  /\ files = [p \in FilePaths |-> Absent]
  /\ dirs = {}
  /\ extracted = [k \in ZipKeys |-> NoEntries]
  /\ manifest = [written |-> FALSE, run |-> 0, results |-> NoResults]
  /\ last = NoCall
  /\ trace = <<>>
  /\ status = "none"
  /\ runs = 0
  /\ faults = 0

\* a step that records under the key of the step before it
ResultKey_Shared(s) == IF s = "fdic_api" THEN "fdic_failed_banks" ELSE s

\* results["<key>"] = self.<step>(): the key each step's result is stored under
ResultKey(s) == s

\* leave step s with return value ret: record it when inside download_all,
\* go to the next step, reset the loop variables
Finish(s, ret) ==
  /\ pc' = After(args, s)
  /\ results' = IF args.all THEN Put(results, ResultKey(s), ret) ELSE results
  /\ idx' = 1
  /\ phase' = "download"
  /\ success' = TRUE
  /\ status' = IF After(args, s) = "shell" THEN "returned" ELSE "running"

\* an exception propagates out of main(): the process dies
Raise ==
  /\ pc' = "shell"
  /\ status' = "raised"
  /\ idx' = 1
  /\ phase' = "download"
  /\ success' = TRUE
  /\ UNCHANGED results

\* the fault budget: a call that does not get answer `regular` uses one up
Budget(o, regular) ==
  /\ o # regular => faults < MaxFaults
  /\ faults' = IF o = regular THEN faults ELSE faults + 1

\* -------------------------------------------------------------- main
\* main(): parse_args, then FFIECDownloader.__init__ creates the directories
Start(a) ==
  /\ pc = "shell"
  /\ runs < MaxRuns
  /\ runs' = runs + 1
  /\ args' = a
  /\ dirs' = dirs \cup BaseDirs
  /\ pc' = Plan(a)[1]
  /\ results' = NoResults
  /\ trace' = <<>>
  /\ idx' = 1
  /\ phase' = "download"
  /\ success' = TRUE
  /\ status' = "running"
  /\ last' = NoCall
  /\ UNCHANGED <<files, extracted, manifest, faults>>

\* if args.list: downloader.list_sources(); return
ListSources ==
  /\ pc = "list_sources"
  /\ pc' = "shell"
  /\ trace' = Append(trace, [ev |-> "list_sources", key |-> "", ok |-> TRUE])
  /\ status' = "returned"
  /\ UNCHANGED <<idx, phase, success, args, results, files, dirs, extracted,
                 manifest, last, runs, faults>>

\* no option given: parser.print_help()
PrintHelp ==
  /\ pc = "print_help"
  /\ pc' = "shell"
  /\ trace' = Append(trace, [ev |-> "print_help", key |-> "", ok |-> TRUE])
  /\ status' = "returned"
  /\ UNCHANGED <<idx, phase, success, args, results, files, dirs, extracted,
                 manifest, last, runs, faults>>

\* ------------------------------------------------ download_fdic_failed_banks
\* a loop that gives up at the first failed download
LoopContinues_StopOnFailure(i, n, ret) == i < n /\ ret

\* the for loop goes on to the next key whatever download_file returned
LoopContinues(i, n, ret) == i < n

\* if not self.download_file(...): success = False
Accumulate(succ, ret) == IF ~ret THEN FALSE ELSE succ

\* one iteration of the loop over the two FDIC mirrors
FdicDownload(o) ==
  /\ pc = "fdic_failed_banks"
  /\ LET key == FdicKeys[idx]
         path == OutputPath(key)
         r == download_file(files[path], o)
     IN /\ o \in Outcomes(DATA_SOURCES[key].format)
        /\ Budget(o, Regular)
        /\ files' = [files EXCEPT ![path] = r.file]
        /\ last' = [call |-> "download_file", key |-> key, o |-> o, ret |-> r.ret,
                    exc |-> r.exc, pre |-> files[path], preDir |-> NoEntries,
                    returned |-> 0, was |-> SourceState(key)]
        /\ trace' = Append(trace, [ev |-> "download", key |-> key,
                                   ok |-> r.ret /\ r.exc = "none"])
        /\ IF r.exc # "none" THEN Raise
           ELSE IF LoopContinues(idx, Len(FdicKeys), r.ret)
           THEN /\ idx' = idx + 1
                /\ success' = Accumulate(success, r.ret)
                /\ UNCHANGED <<pc, phase, results, status>>
           ELSE Finish("fdic_failed_banks", Accumulate(success, r.ret))
  /\ UNCHANGED <<args, dirs, extracted, manifest, runs>>

\* ------------------------------------------------ download_fdic_failures_api
FdicApi(o) ==
  /\ pc = "fdic_api"
  /\ o \in ApiOutcomes
  /\ Budget(o, ApiRegular)
  /\ LET r == download_fdic_failures_api(files[ApiJsonPath], files[ApiCsvPath], o)
     IN /\ files' = [files EXCEPT ![ApiJsonPath] = r.json, ![ApiCsvPath] = r.csv]
        /\ last' = [call |-> "fdic_api", key |-> "fdic_api", o |-> o, ret |-> r.ret,
                    exc |-> r.exc, pre |-> files[ApiJsonPath], preDir |-> NoEntries,
                    returned |-> 0, was |-> NoCall.was]
        /\ trace' = Append(trace, [ev |-> "api", key |-> "fdic_api",
                                   ok |-> r.ret /\ r.exc = "none"])
        /\ IF r.exc # "none" THEN Raise ELSE Finish("fdic_api", r.ret)
  /\ UNCHANGED <<args, dirs, extracted, manifest, runs>>

\* --------------------------------------------------------- download_nic_data
\* the format test compares with the wrong string
ExtractsAfter_WrongFormat(key, ret) == ret /\ DATA_SOURCES[key].format = "csv"

\* the extraction moved out of the `if self.download_file(...)` block
ExtractsAfter_IgnoresRet(key, ret) == DATA_SOURCES[key].format = "zip"

\* if source["format"] == "zip": (after a successful download)
ExtractsAfter(key, ret) == ret /\ DATA_SOURCES[key].format = "zip"

\* the body of the loops over the sources as a function of what source key
\* owns on disk (st) and of the answer o to its request: download_file, and
\* after a successful download of an archive mkdir and extract_zip; an
\* exception ends it where it is raised
download_source(st, key, o) ==
  LET r == download_file(st.file, o) IN
  IF r.exc = "none" /\ ExtractsAfter(key, r.ret)
  THEN [file |-> r.file, dir |-> TRUE, entries |-> extract_zip(r.file, st.entries).dir]
  ELSE [file |-> r.file, dir |-> st.dir, entries |-> st.entries]

\* the end of one iteration of the loop over nic_sources
NicAdvance(ret, succ) ==
  IF LoopContinues(idx, Len(nic_sources), ret)
  THEN /\ idx' = idx + 1
       /\ phase' = "download"
       /\ success' = succ
       /\ UNCHANGED <<pc, results, status>>
  ELSE Finish("nic_data", succ)

\* the download_file call of one iteration
NicDownload(o) ==
  /\ pc = "nic_data"
  /\ phase = "download"
  /\ LET key == nic_sources[idx]
         path == OutputPath(key)
         r == download_file(files[path], o)
     IN /\ o \in Outcomes(DATA_SOURCES[key].format)
        /\ Budget(o, Regular)
        /\ files' = [files EXCEPT ![path] = r.file]
        /\ last' = [call |-> "download_file", key |-> key, o |-> o, ret |-> r.ret,
                    exc |-> r.exc, pre |-> files[path], preDir |-> NoEntries,
                    returned |-> 0, was |-> SourceState(key)]
        /\ trace' = Append(trace, [ev |-> "download", key |-> key,
                                   ok |-> r.ret /\ r.exc = "none"])
        /\ IF r.exc # "none" THEN Raise
           ELSE IF ExtractsAfter(key, r.ret)
           THEN /\ phase' = "extract"
                /\ UNCHANGED <<pc, idx, success, results, status>>
           ELSE NicAdvance(r.ret, Accumulate(success, r.ret))
  /\ UNCHANGED <<args, dirs, extracted, manifest, runs>>

\* a loop that counts an empty extraction as a failure of the source
AfterExtract_Checks(succ, returned) == succ /\ returned > 0

\* self.extract_zip(...) is a statement: the list it returns is dropped and
\* `success` stays as it is
AfterExtract(succ, returned) == succ

\* extract_dir.mkdir(exist_ok=True); self.extract_zip(output_path, extract_dir)
NicExtract ==
  /\ pc = "nic_data"
  /\ phase = "extract"
  /\ LET key == nic_sources[idx]
         x == extract_zip(files[OutputPath(key)], extracted[key])
     IN /\ dirs' = dirs \cup {ExtractDir(key)}
        /\ extracted' = [extracted EXCEPT ![key] = x.dir]
        /\ last' = [call |-> "extract_zip", key |-> key, o |-> last.o,
                    ret |-> x.exc = "none", exc |-> x.exc,
                    pre |-> files[OutputPath(key)], preDir |-> extracted[key],
                    returned |-> x.returned, was |-> last.was]
        /\ trace' = Append(trace, [ev |-> "extract", key |-> key,
                                   ok |-> x.exc = "none"])
        /\ IF x.exc # "none" THEN Raise
           ELSE NicAdvance(TRUE, AfterExtract(success, x.returned))
  /\ UNCHANGED <<args, files, manifest, runs, faults>>

\* ------------------------------ download_chicago_fed_data, download_cdr_info
\* writes chicago_fed/DOWNLOAD_INSTRUCTIONS.md, returns True
ChicagoFed ==
  /\ pc = "chicago_fed_info"
  /\ files' = [files EXCEPT ![ChicagoPath] = Full("chicago_instructions")]
  /\ trace' = Append(trace, [ev |-> "instructions", key |-> "chicago_fed_info", ok |-> TRUE])
  /\ Finish("chicago_fed_info", TRUE)
  /\ UNCHANGED <<args, dirs, extracted, manifest, last, runs, faults>>

\* writes metadata/FFIEC_CDR_INSTRUCTIONS.md, returns True
CdrInfo ==
  /\ pc = "cdr_info"
  /\ files' = [files EXCEPT ![CdrPath] = Full("cdr_instructions")]
  /\ trace' = Append(trace, [ev |-> "instructions", key |-> "cdr_info", ok |-> TRUE])
  /\ Finish("cdr_info", TRUE)
  /\ UNCHANGED <<args, dirs, extracted, manifest, last, runs, faults>>

\* ------------------------------------------------------------ _save_manifest
\* the manifest's "results" member; download_date is the invocation's number
ManifestOf(res) == [written |-> TRUE, run |-> runs, results |-> res]

\* self._save_manifest(results); return results; main prints the summary
SaveManifest ==
  /\ pc = "save_manifest"
  /\ manifest' = ManifestOf(results)
  /\ trace' = Append(trace, [ev |-> "manifest", key |-> "", ok |-> TRUE])
  /\ pc' = After(args, "save_manifest")
  /\ status' = "returned"
  /\ UNCHANGED <<idx, phase, success, args, results, files, dirs, extracted,
                 last, runs, faults>>

Next ==
  \/ \E a \in ArgSpace : Start(a)
  \/ ListSources
  \/ PrintHelp
  \/ \E o \in Outcomes("csv") : FdicDownload(o)
  \/ \E o \in ApiOutcomes : FdicApi(o)
  \/ \E o \in Outcomes("zip") : NicDownload(o)
  \/ NicExtract
  \/ ChicagoFed
  \/ CdrInfo
  \/ SaveManifest

Spec == Init /\ [][Next]_vars

\* ===================================================================== claims
\* the last invocation was download_all (--all without --list) and is over
DownloadAllOver == pc = "shell" /\ runs > 0 /\ args.all /\ ~args.list

\* the call `last` is a download_file call that returned False
FailedDownload == last.call = "download_file" /\ last.exc = "none" /\ ~last.ret

\* download_file returned True for key k in the current invocation
DownloadedOk(k) ==
  \E i \in 1..Len(trace) : trace[i] = [ev |-> "download", key |-> k, ok |-> TRUE]

\* C1: a download_all run whose HTTP calls end in a connection error, a
\* timeout, an error status, or a 2xx answer with an empty, malformed or
\* irregular body or a corrupt archive always returns, having written the
\* manifest (a response with a malformed Content-Length header is none of
\* these outcomes and is left out).
C1_AlwaysWritesManifest ==
  (DownloadAllOver /\ ~(last.call = "download_file" /\ last.o.header = "malformed"))
    => (status = "returned" /\ manifest.written /\ manifest.run = runs)

\* C2: no step of an invocation with --list changes the filesystem, whatever
\* other flags are given and whatever the filesystem holds at the start.
C2_ListWritesNothing ==
  [][((pc = "shell" /\ pc' # "shell" /\ args'.list) \/ (pc # "shell" /\ args.list))
       => (files' = files /\ dirs' = dirs /\ extracted' = extracted
           /\ manifest' = manifest)]_vars

\* C3 (as claimed): when download_all has returned, every zip source has its
\* directory nic/<stem>, holding every entry of the archive, whatever the
\* downloads did.
C3_AlwaysExtracted ==
  (DownloadAllOver /\ status = "returned")
    => \A k \in ZipKeys :
         /\ ExtractDir(k) \in dirs
         /\ \A e \in Entries : extracted[k][e] = "full"

\* C3 (amended): when download_all has returned, every zip source whose
\* download succeeded in this run has its directory nic/<stem>, and the
\* directory holds every entry of the archive when the archive is valid.
C3_DownloadedExtracted ==
  (DownloadAllOver /\ status = "returned")
    => \A k \in ZipKeys :
         DownloadedOk(k)
           => /\ ExtractDir(k) \in dirs
              /\ files[OutputPath(k)] = Full("payload")
                   => \A e \in Entries : extracted[k][e] = "full"

\* a run that returned in which one archive failed to download (and got no
\* directory) while another was downloaded and extracted
C3_Witness ==
  /\ DownloadAllOver /\ status = "returned"
  /\ \E k \in ZipKeys : ~DownloadedOk(k) /\ ExtractDir(k) \notin dirs
  /\ \E k \in ZipKeys : /\ DownloadedOk(k)
                        /\ files[OutputPath(k)] = Full("payload")
                        /\ \A e \in Entries : extracted[k][e] = "full"

\* C4 (as claimed): after a download_file call that returned failure the
\* destination never holds a complete payload.
C4_FailureLeavesNoPayload ==
  FailedDownload => ~Complete(files[OutputPath(last.key)])

\* the failure came before the body stream: session.get or raise_for_status
FailedBeforeStream(o) ==
  o.kind \in {"ConnectionError", "Timeout"} \/ o.status >= 400

\* C4 (amended): after a download_file call that returned failure, the
\* destination is as it was before the call when the failure came before
\* the body stream (absent if it was absent, a complete payload if an
\* earlier call left one), and holds an empty or truncated body when the
\* failure came during the stream.
C4_FailureLeavesPriorOrTruncated ==
  FailedDownload
    => LET f == files[OutputPath(last.key)] IN
       IF FailedBeforeStream(last.o)
       THEN f = last.pre
       ELSE /\ EmptyOrTruncated(f)
            /\ last.o.got < BodyLen(last.o.body)
            /\ f = Written(last.o.body, last.o.got)

\* a failed call that left the complete payload of an earlier successful call
C4_Witness ==
  /\ FailedDownload
  /\ FailedBeforeStream(last.o)
  /\ Complete(last.pre)
  /\ files[OutputPath(last.key)] = last.pre

\* a transport-level failure as the claim lists them: connection error,
\* timeout, a status outside 2xx, a connection that breaks during the stream
TransportFailure(o) ==
  \/ o.kind \in {"ConnectionError", "Timeout"}
  \/ o.status < 200 \/ o.status > 299
  \/ o.got < BodyLen(o.body)

\* C5: download_file returns False, and raises nothing, on every transport
\* failure, and returns True only for a 2xx response whose whole body was
\* written to the destination.
C5_DownloadFileResult ==
  last.call = "download_file"
    => /\ TransportFailure(last.o) => (last.exc = "none" /\ ~last.ret)
       /\ (last.exc = "none" /\ last.ret)
            => /\ last.o.kind = "response"
               /\ last.o.status >= 200 /\ last.o.status <= 299
               /\ last.o.got = BodyLen(last.o.body)
               /\ files[OutputPath(last.key)] = Full(last.o.body)

\* a transport failure as section 7 lists them (network, timeout, HTTP
\* error): session.get raised, the status is an error status, or the
\* connection broke during the stream
RequestFailed(o) ==
  \/ o.kind \in {"ConnectionError", "Timeout"}
  \/ o.status >= 400
  \/ o.got < BodyLen(o.body)

\* the step an event of the trace belongs to
EventStep(e) ==
  CASE e.ev = "download" -> StepOf(e.key)
    [] e.ev = "extract" -> "nic_data"
    [] e.ev = "api" -> "fdic_api"
    [] e.ev = "instructions" -> e.key
    [] OTHER -> e.ev

\* the step from the unprimed to the primed state is an HTTP call of the
\* running process (a download_file call or the API fetch)
HttpCallStep ==
  /\ pc \in {"fdic_failed_banks", "fdic_api", "nic_data"}
  /\ Len(trace') = Len(trace) + 1
  /\ trace'[Len(trace')].ev \in {"download", "api"}

\* what a transport failure of the call made at step pc, position idx, leads to
C6_AfterFailure ==
  /\ last'.exc = "none" /\ ~last'.ret
  /\ IF pc = "fdic_failed_banks" /\ idx < 2
     THEN \* the legacy mirror is attempted next
          pc' = pc /\ idx' = 2 /\ ~success' /\ results' = results
     ELSE IF pc = "nic_data" /\ idx < 6
     THEN \* the next NIC file is attempted next
          /\ pc' = pc /\ idx' = idx + 1 /\ phase' = "download"
          /\ ~success' /\ results' = results
     ELSE \* the step is over: false is recorded, the next step is attempted
          /\ pc' = After(args, pc)
          /\ args.all => (pc \in DOMAIN results' /\ ~results'[pc])
          /\ \A k \in DOMAIN results : k \in DOMAIN results' /\ results'[k] = results[k]
          /\ DOMAIN results' \subseteq DOMAIN results \cup {pc}

\* C6: a transport failure of a source never stops the run (the next source
\* of the step, or the next step, is attempted next), is recorded as false
\* in the entry of the source's step, and leaves the other entries alone.
C6_TransportFailureNonFatal ==
  /\ [](\A i \in 1..Len(trace) :
          (trace[i].ev \in {"download", "api"} /\ ~trace[i].ok
           /\ EventStep(trace[i]) \in DOMAIN results)
            => ~results[EventStep(trace[i])])
  /\ [][(HttpCallStep /\ RequestFailed(last'.o)) => C6_AfterFailure]_vars

\* a download_all run that wrote its manifest although the first FDIC mirror
\* failed: the legacy mirror and the later steps all ran
C6_Witness ==
  /\ DownloadAllOver /\ manifest.written /\ manifest.run = runs
  /\ trace[1] = [ev |-> "download", key |-> "fdic_failed_banks", ok |-> FALSE]
  /\ trace[2] = [ev |-> "download", key |-> "fdic_failed_banks_legacy", ok |-> TRUE]
  /\ ~manifest.results["fdic_failed_banks"]
  /\ manifest.results["fdic_api"]
  /\ manifest.results["chicago_fed_info"]

\* the archive file is corrupt: anything but a complete valid archive
Corrupt(c) == ~(Complete(c) /\ c.body = "payload")

\* C7: on a corrupt archive extract_zip returns instead of raising, nothing
\* is extracted into the target directory, and the run goes on.
C7_CorruptArchive ==
  (last.call = "extract_zip" /\ Corrupt(last.pre))
    => /\ last.exc = "none"
       /\ extracted[last.key] = last.preDir
       /\ status # "raised"

\* the place of a step in the order the claim gives
StepRank(s) ==
  CASE s = "fdic_failed_banks" -> 1
    [] s = "fdic_api" -> 2
    [] s = "nic_data" -> 3
    [] s = "chicago_fed_info" -> 4
    [] s = "cdr_info" -> 5
    [] s = "manifest" -> 6
    [] OTHER -> 0

EventRank(i) == StepRank(EventStep(trace[i]))

\* C8: the calls of a download_all run come in one order whatever their
\* outcomes: primary FDIC URL, legacy mirror, API fetch, NIC downloads,
\* Chicago Fed instructions, CDR instructions, manifest; a step's calls are
\* contiguous, a step starts only after all calls of the step before it, and
\* the manifest is written last, after all five steps.
C8_FixedOrder ==
  (runs > 0 /\ args.all /\ ~args.list)
    => /\ Len(trace) > 0 => (trace[1].ev = "download" /\ trace[1].key = "fdic_failed_banks")
       /\ Len(trace) > 1 => (trace[2].ev = "download" /\ trace[2].key = "fdic_failed_banks_legacy")
       /\ \A i \in 1..Len(trace) : EventRank(i) \in 1..6
       /\ \A i \in 1..(Len(trace) - 1) :
            /\ EventRank(i + 1) \in {EventRank(i), EventRank(i) + 1}
            /\ EventRank(i + 1) = EventRank(i) => EventRank(i) \in {1, 3}
            /\ EventRank(i + 1) = 2 => i = 2
            /\ EventRank(i + 1) = 4
                 => \A k \in SeqRange(nic_sources) :
                      \E j \in 1..i : trace[j].ev = "download" /\ trace[j].key = k
       /\ \A i \in 1..Len(trace) :
            trace[i].ev = "manifest"
              => i = Len(trace) /\ {EventRank(j) : j \in 1..(i - 1)} = 1..5
       /\ (manifest.written /\ manifest.run = runs)
            => (Len(trace) > 0 /\ trace[Len(trace)].ev = "manifest")
       /\ pc \notin {"shell", "save_manifest"}
            => (Len(trace) > 0
                  => StepRank(pc) \in {EventRank(Len(trace)), EventRank(Len(trace)) + 1})

\* a download_all run that wrote the manifest after a failed first step
C8_Witness ==
  /\ DownloadAllOver /\ manifest.written /\ manifest.run = runs
  /\ ~manifest.results["fdic_failed_banks"]
  /\ trace[Len(trace)].ev = "manifest"

\* the download_file calls download_nic_data made for archives, as positions
\* of the trace
ArchiveDownloads ==
  {i \in 1..Len(trace) : trace[i].ev = "download" /\ trace[i].key \in ZipKeys}

NicDownloads ==
  {i \in 1..Len(trace) : trace[i].ev = "download" /\ StepOf(trace[i].key) = "nic_data"}

\* download_nic_data has returned in the current invocation
NicOver == pc # "nic_data" /\ status # "raised" /\ NicDownloads # {}

\* the event after position i is the extraction of the archive downloaded at i
ExtractedNext(i) ==
  /\ i < Len(trace)
  /\ trace[i + 1].ev = "extract"
  /\ trace[i + 1].key = trace[i].key

\* C9 (as claimed): the NIC step downloads four archives and extracts each
\* of them after its download.
C9_FourArchives ==
  NicOver
    => /\ Cardinality(ArchiveDownloads) = 4
       /\ \A i \in ArchiveDownloads : ExtractedNext(i)

\* C9 (amended): the NIC step downloads six files, five of them archives;
\* each archive whose download succeeded is extracted right after its
\* download, an archive whose download failed is not extracted, and nothing
\* else is extracted.
C9_FiveArchives ==
  NicOver
    => /\ Cardinality(NicDownloads) = 6
       /\ Cardinality(ArchiveDownloads) = 5
       /\ {trace[i].key : i \in ArchiveDownloads} = ZipKeys
       /\ \A i \in ArchiveDownloads : trace[i].ok <=> ExtractedNext(i)
       /\ \A i \in 1..Len(trace) :
            trace[i].ev = "extract" => (i - 1) \in ArchiveDownloads /\ ExtractedNext(i - 1)

\* the NIC step is over; one archive failed to download and was not
\* extracted, another was downloaded and extracted
C9_Witness ==
  /\ NicOver
  /\ \E i \in ArchiveDownloads : ~trace[i].ok /\ ~ExtractedNext(i)
  /\ \E i \in ArchiveDownloads : trace[i].ok /\ ExtractedNext(i)

\* C10: the results map of a written manifest has exactly the keys
\* fdic_failed_banks, fdic_api, nic_data, chicago_fed_info and cdr_info, each
\* mapped to a boolean, whatever the steps returned.
C10_ManifestKeys ==
  manifest.written
    => /\ DOMAIN manifest.results =
            {"fdic_failed_banks", "fdic_api", "nic_data", "chicago_fed_info", "cdr_info"}
       /\ \A k \in DOMAIN manifest.results : manifest.results[k] \in BOOLEAN

\* a manifest written by a run in which the NIC step failed
C10_Witness ==
  /\ manifest.written
  /\ ~manifest.results["nic_data"]
  /\ manifest.results["cdr_info"]

\* the loop iteration of the source of the call `last` is over
IterationOver ==
  /\ last.call \in {"download_file", "extract_zip"}
  /\ ~(pc = "nic_data" /\ phase = "extract")

\* the step from the unprimed to the primed state is a download_file or
\* extract_zip call
SourceStep ==
  /\ Len(trace') = Len(trace) + 1
  /\ trace'[Len(trace')].ev \in {"download", "extract"}

\* a call for source k left everything that is not k's as it was
OthersUnchanged(k) ==
  /\ \A p \in FilePaths \ {OutputPath(k)} : files'[p] = files[p]
  /\ \A j \in ZipKeys \ {k} : extracted'[j] = extracted[j]
  /\ dirs' \ dirs \subseteq {ExtractDir(k)} /\ dirs \subseteq dirs'
  /\ manifest' = manifest

\* C11: downloading a source (and extracting it, for an archive) is
\* idempotent by overwrite: what a finished loop iteration left on disk is
\* what one performance of it on the state before leaves, performing it
\* again with the same response leaves exactly that, the same holds for
\* every source and every response from every filesystem an invocation can
\* start on, and a call for one source changes no file of any other source.
C11_IdempotentByOverwrite ==
  /\ [](IterationOver
          => /\ SourceState(last.key) = download_source(last.was, last.key, last.o)
             /\ download_source(SourceState(last.key), last.key, last.o)
                  = SourceState(last.key))
  /\ [](pc = "shell"
          => \A k \in SourceKeys : \A o \in Outcomes(DATA_SOURCES[k].format) :
               LET once == download_source(SourceState(k), k, o)
               IN download_source(once, k, o) = once)
  /\ [][SourceStep => OthersUnchanged(trace'[Len(trace')].key)]_vars

\* a second invocation downloaded and extracted an archive it had already
\* downloaded and extracted, and the source's files are as they were
C11_Witness ==
  /\ runs = 2
  /\ IterationOver
  /\ last.call = "extract_zip"
  /\ last.was.file = Full("payload")
  /\ \A e \in Entries : last.was.entries[e] = "full"
  /\ SourceState(last.key) = last.was

\* C12: extract_zip returns a list with one path per entry of a valid
\* archive, and returns an empty list for a corrupt archive.
C12_ExtractReturn ==
  last.call = "extract_zip"
    => /\ last.exc = "none"
       /\ last.returned = IF Corrupt(last.pre) THEN 0 ELSE EntryCount

\* C13: the nic_data entry is true exactly when every download_file call of
\* the NIC step returned True, whatever the extractions did; and an
\* extraction is attempted only right after a successful download, in the
\* same run, of a source whose format is zip.
C13_NicResultFromDownloads ==
  /\ "nic_data" \in DOMAIN results
       => /\ {trace[i].key : i \in NicDownloads} = SeqRange(nic_sources)
          /\ results["nic_data"] <=> \A i \in NicDownloads : trace[i].ok
  /\ \A i \in 1..Len(trace) :
       trace[i].ev = "extract"
         => /\ i > 1
            /\ trace[i - 1] = [ev |-> "download", key |-> trace[i].key, ok |-> TRUE]
            /\ DATA_SOURCES[trace[i].key].format = "zip"

\* every NIC download succeeded, one archive was no archive at all and
\* nothing was extracted from it, and nic_data is recorded as true
C13_Witness ==
  /\ "nic_data" \in DOMAIN results
  /\ results["nic_data"]
  /\ \E k \in ZipKeys :
       /\ DownloadedOk(k)
       /\ files[OutputPath(k)] = Full("not_zip")
       /\ ExtractDir(k) \in dirs
       /\ extracted[k] = NoEntries

====
